---- MODULE Spec2Model ----
(***************************************************************************)
(* A model of the BBMASTER metadata manager (bbmaster/metadata_manager.py, *)
(* class BBmeta) and of the pseudo-C_ell routine get_pcls                  *)
(* (bbmaster/utils.py).                                                    *)
(*                                                                         *)
(* Text is modelled by what the code does with it: a map identifier is a   *)
(* sequence of characters built by f"{map_set}__{id_split}" and taken      *)
(* apart again by str.split("__"); a path is a sequence of segments whose  *)
(* formatted parts (f"{id_sim:04d}") are built digit by digit.  An .npz    *)
(* archive is the mapping from keys to arrays that np.savez builds from    *)
(* its keyword arguments.                                                  *)
(***************************************************************************)
EXTENDS Integers, Sequences, FiniteSets, TLC

VARIABLES
    config,   \* the parsed yaml configuration handed to BBmeta.__init__
    fs,       \* the directories that exist on the filesystem
    meta,     \* the BBmeta object (built = FALSE until __init__ returns)
    err,      \* the exception raised by the last call ("none": it returned)
    ret,      \* the value returned by the last call
    call,     \* the last call and its arguments
    pcl,      \* the state of a get_pcls call (utils.py)
    npz       \* the .npz archives on disk: path -> (key -> array)

vars == <<config, fs, meta, err, ret, call, pcl, npz>>

(***************************************************************************)
(* Bounds of the model.                                                    *)
(***************************************************************************)
MaxMapSets == 2
MaxSplits == 2
MaxNside == 3
MaxMaps == 3
MaxBands == 2

\* id_sim=None
None == 0 - 1

ExpTags == {"X", "Y"}
MapSetKeys == {"n_splits", "exp_tag", "file_root"}
\* "other" stands for any string that is not "all", "auto" or "cross"
Types == {"all", "auto", "cross", "other"}
SimIds == {0, 7, 123, 12345}

(***************************************************************************)
(* Text: decimal formatting, str.split, string comparison.                 *)
(***************************************************************************)
DigitChars == <<"0", "1", "2", "3", "4", "5", "6", "7", "8", "9">>

\* str(n) for n >= 0, as a sequence of characters
RECURSIVE Dec(_)
Dec(n) ==
    IF n < 10 THEN <<DigitChars[n + 1]>>
    ELSE Dec(n \div 10) \o <<DigitChars[(n % 10) + 1]>>

\* ord(c) for the characters the model uses
Ord(c) ==
    CASE c \in {DigitChars[k] : k \in 1..10} ->
            47 + (CHOOSE k \in 1..10 : DigitChars[k] = c)
      [] c = "A" -> 65
      [] c = "B" -> 66
      [] c = "C" -> 67
      [] c = "D" -> 68
      [] c = "_" -> 95

\* a > b for the numbers that two digit strings without leading zeros
\* stand for: the longer is greater, equal lengths compare digit by digit
StrGtNumeric(a, b) ==
    IF Len(a) # Len(b) THEN Len(a) > Len(b)
    ELSE \E k \in 1..Len(a) :
             /\ \A m \in 1..(k - 1) : a[m] = b[m]
             /\ a[k] # b[k]
             /\ \E da, db \in 1..10 :
                    DigitChars[da] = a[k] /\ DigitChars[db] = b[k] /\ da > db

\* a > b on Python strings: lexicographic on code points, a proper prefix
\* is smaller
RECURSIVE StrGt(_, _)
StrGt(a, b) ==
    IF a = <<>> THEN FALSE
    ELSE IF b = <<>> THEN TRUE
    ELSE IF Head(a) # Head(b) THEN Ord(Head(a)) > Ord(Head(b))
    ELSE StrGt(Tail(a), Tail(b))

\* s.split("__"): the parts between the non-overlapping occurrences of
\* "__", found left to right
RECURSIVE SplitSep(_)
SplitSep(s) ==
    LET hits == {i \in 1..(Len(s) - 1) : s[i] = "_" /\ s[i + 1] = "_"}
    IN  IF hits = {} THEN <<s>>
        ELSE LET i == CHOOSE h \in hits : \A g \in hits : h <= g
             IN  <<SubSeq(s, 1, i - 1)>> \o SplitSep(SubSeq(s, i + 2, Len(s)))

\* the characters of a sequence joined into one string
RECURSIVE Join(_)
Join(s) == IF s = <<>> THEN "" ELSE Head(s) \o Join(Tail(s))

\* f"{n:04d}" for n >= 0: zero-padded to a width of at least 4
Fmt04d(n) ==
    LET d == Dec(n)
        pad == IF Len(d) >= 4 THEN <<>> ELSE [k \in 1..(4 - Len(d)) |-> "0"]
    IN  Join(pad \o d)

\* f"{map_set}__{id_split}"
MapName(map_set, id_split) == map_set \o <<"_", "_">> \o Dec(id_split)

(***************************************************************************)
(* The configuration.                                                      *)
(***************************************************************************)
FileRoot(name) == "root" \o Join(name)

\* data_dirs and output_dirs: label -> path, in file order; "root" is the
\* base of the others
DataDirs ==
    <<[label |-> "root", path |-> <<"data">>],
      [label |-> "map_directory", path |-> <<"maps">>],
      [label |-> "sims_directory", path |-> <<"sims">>],
      [label |-> "pre_process_directory", path |-> <<"pre">>]>>
OutputDirs ==
    <<[label |-> "root", path |-> <<"out">>],
      [label |-> "cells_directory", path |-> <<"cells">>]>>

\* the first n names in ascending and in descending order
NameOrders(n) ==
    LET asc == <<<<"A">>, <<"B">>, <<"C">>, <<"D">>>>
    IN  {[i \in 1..n |-> asc[i]], [i \in 1..n |-> asc[n + 1 - i]]}

\* map_sets of n entries with every key present: either order of the
\* names, any split counts, any experiment tags
Registries(n) ==
    {[i \in 1..n |->
        [id |-> ns[i],
         attrs |-> [n_splits |-> sp[i], exp_tag |-> tg[i],
                    file_root |-> FileRoot(ns[i])]]] :
        ns \in NameOrders(n),
        sp \in [1..n -> 1..MaxSplits],
        tg \in [1..n -> ExpTags]}

\* the registries A: 2 splits; A: 2, B: 3; A: 2, B: 3, C: 1
LoadNames == <<<<"A">>, <<"B">>, <<"C">>>>
LoadSplits == <<2, 3, 1>>
LoadTags == <<"X", "Y", "X">>

LoadRegistry(n) ==
    [i \in 1..n |->
        [id |-> LoadNames[i],
         attrs |-> [n_splits |-> LoadSplits[i], exp_tag |-> LoadTags[i],
                    file_root |-> FileRoot(LoadNames[i])]]]

\* the registry with `key` deleted from its i-th map set
DropKey(reg, i, key) ==
    [reg EXCEPT ![i].attrs =
        [k \in (DOMAIN reg[i].attrs) \ {key} |-> reg[i].attrs[k]]]

MakeConfig(reg, nside, lmax) ==
    [map_sets |-> reg, nside |-> nside, lmax |-> lmax,
     data_dirs |-> DataDirs, output_dirs |-> OutputDirs]

Range(seq) == {seq[k] : k \in 1..Len(seq)}

(***************************************************************************)
(* The filesystem: os.makedirs(path, exist_ok=True).                       *)
(***************************************************************************)
Prefixes(p) == {SubSeq(p, 1, k) : k \in 1..Len(p)}

MakeDirs(dirs, p) == dirs \cup Prefixes(p)

\* os.path.join(a, b) for a relative b
PathJoin(a, b) == a \o <<b>>

(***************************************************************************)
(* BBmeta.__init__                                                         *)
(***************************************************************************)
DirRoot(entries) ==
    LET k == CHOOSE i \in 1..Len(entries) : entries[i].label = "root"
    IN  entries[k].path

\* one of the two loops of _set_directory_attributes: the full path of
\* every label but "root"
FullPaths(entries) ==
    [k \in {i \in 1..Len(entries) : entries[i].label # "root"} |->
        [label |-> entries[k].label,
         full_path |-> DirRoot(entries) \o entries[k].path]]

ConfiguredDirs(cfg) ==
    {FullPaths(cfg.data_dirs)[k].full_path : k \in DOMAIN FullPaths(cfg.data_dirs)}
    \cup
    {FullPaths(cfg.output_dirs)[k].full_path : k \in DOMAIN FullPaths(cfg.output_dirs)}

\* the filesystem after the makedirs calls of a constructor that does not
\* create the configured directories
SetDirectoryAttributesLazy(dirs, cfg) == dirs

\* the filesystem after _set_directory_attributes: every configured
\* directory is created, with its missing parents
SetDirectoryAttributes(dirs, cfg) ==
    dirs \cup UNION {Prefixes(p) : p \in ConfiguredDirs(cfg)}

\* the directory attributes set on the object: label -> full path
DirAttributes(cfg) ==
    LET all == {FullPaths(cfg.data_dirs)[k] : k \in DOMAIN FullPaths(cfg.data_dirs)}
               \cup
               {FullPaths(cfg.output_dirs)[k] : k \in DOMAIN FullPaths(cfg.output_dirs)}
    IN  [l \in {e.label : e \in all} |->
            (CHOOSE e \in all : e.label = l).full_path]

\* the sanity check of __init__ with its bound off by one
LmaxTooLargeStrict(cfg) == cfg.lmax > 3 * cfg.nside

\* the sanity check of __init__
LmaxTooLarge(cfg) == cfg.lmax > (3 * cfg.nside) - 1

\* the keys of the first map set: one getter {key}_from_map_set each
GetterKeys(cfg) == DOMAIN cfg.map_sets[1].attrs

MapSetIndex(reg, map_set) ==
    LET found == {i \in 1..Len(reg) : reg[i].id = map_set}
    IN  IF found = {} THEN 0 ELSE CHOOSE i \in found : TRUE

\* self.{key}_from_map_set(map_set): the attribute, or the exception
FromMapSet(getters, reg, key, map_set) ==
    LET i == MapSetIndex(reg, map_set)
    IN  IF key \notin getters THEN [err |-> "AttributeError", val |-> 0]
        ELSE IF i = 0 THEN [err |-> "KeyError", val |-> 0]
        ELSE IF key \notin DOMAIN reg[i].attrs THEN [err |-> "KeyError", val |-> 0]
        ELSE [err |-> "none", val |-> reg[i].attrs[key]]

\* _get_map_sets_list
GetMapSetsList(reg) == [i \in 1..Len(reg) |-> reg[i].id]

\* _get_map_list whose identifiers leave out the split
RECURSIVE GetMapListNoSplit(_, _, _)
GetMapListNoSplit(getters, reg, k) ==
    IF k > Len(reg) THEN [err |-> "none", val |-> <<>>]
    ELSE LET n == FromMapSet(getters, reg, "n_splits", reg[k].id)
             rest == GetMapListNoSplit(getters, reg, k + 1)
         IN  IF n.err # "none" THEN [err |-> n.err, val |-> <<>>]
             ELSE IF rest.err # "none" THEN rest
             ELSE [err |-> "none",
                   val |-> [s \in 1..n.val |-> MapName(reg[k].id, 0)]
                           \o rest.val]

\* _get_map_list: the map sets from the k-th on, each with its splits
\* 0 .. n_splits-1
RECURSIVE GetMapList(_, _, _)
GetMapList(getters, reg, k) ==
    IF k > Len(reg) THEN [err |-> "none", val |-> <<>>]
    ELSE LET n == FromMapSet(getters, reg, "n_splits", reg[k].id)
             rest == GetMapList(getters, reg, k + 1)
         IN  IF n.err # "none" THEN [err |-> n.err, val |-> <<>>]
             ELSE IF rest.err # "none" THEN rest
             ELSE [err |-> "none",
                   val |-> [s \in 1..n.val |-> MapName(reg[k].id, s - 1)]
                           \o rest.val]

NoObject ==
    [built |-> FALSE, map_sets |-> <<>>, getters |-> {},
     map_sets_list |-> <<>>, maps_list |-> <<>>, dir_attrs |-> <<>>]

\* __init__ after _set_directory_attributes: the exception raised and the
\* object built
BBmetaInit(cfg) ==
    LET maps == GetMapList(GetterKeys(cfg), cfg.map_sets, 1)
    IN  IF LmaxTooLarge(cfg) THEN [err |-> "ValueError", obj |-> NoObject]
        ELSE IF maps.err # "none" THEN [err |-> maps.err, obj |-> NoObject]
        ELSE [err |-> "none",
              obj |-> [built |-> TRUE,
                       map_sets |-> cfg.map_sets,
                       getters |-> GetterKeys(cfg),
                       map_sets_list |-> GetMapSetsList(cfg.map_sets),
                       maps_list |-> maps.val,
                       dir_attrs |-> DirAttributes(cfg)]]

(***************************************************************************)
(* BBmeta.get_ps_names_list                                                *)
(***************************************************************************)
\* the coadd branch without its `if i > j: continue`
CoaddOutcomeNoTriangle(type, i, j) ==
    IF type = "cross" /\ i = j THEN "skip"
    ELSE IF type = "auto" /\ i # j THEN "skip"
    ELSE "emit"

\* the coadd branch of the loop body for the index pair (i, j)
CoaddOutcome(type, i, j) ==
    IF i > j THEN "skip"
    ELSE IF type = "cross" /\ i = j THEN "skip"
    ELSE IF type = "auto" /\ i # j THEN "skip"
    ELSE "emit"

\* the else branch with the condition of the "cross" filter used for
\* "auto" as well
SplitOutcomeAutoAsCross(o, type, map1, map2) ==
    LET p1 == SplitSep(map1)
        p2 == SplitSep(map2)
    IN  IF Len(p1) # 2 \/ Len(p2) # 2 THEN "ValueError"
        ELSE IF p1[1] = p2[1] /\ StrGt(p1[2], p2[2]) THEN "skip"
        ELSE LET e1 == FromMapSet(o.getters, o.map_sets, "exp_tag", p1[1])
                 e2 == FromMapSet(o.getters, o.map_sets, "exp_tag", p2[1])
             IN  IF e1.err # "none" THEN e1.err
                 ELSE IF e2.err # "none" THEN e2.err
                 ELSE IF type \in {"cross", "auto"} /\ e1.val = e2.val
                         /\ p1[2] = p2[2]
                      THEN "skip"
                 ELSE "emit"

\* the else branch of the loop body for the maps map1 and map2: "skip"
\* (continue), "emit" (append) or the exception raised
SplitOutcome(o, type, map1, map2) ==
    LET p1 == SplitSep(map1)
        p2 == SplitSep(map2)
    IN  IF Len(p1) # 2 \/ Len(p2) # 2 THEN "ValueError"
        ELSE IF p1[1] = p2[1] /\ StrGt(p1[2], p2[2]) THEN "skip"
        ELSE LET e1 == FromMapSet(o.getters, o.map_sets, "exp_tag", p1[1])
                 e2 == FromMapSet(o.getters, o.map_sets, "exp_tag", p2[1])
             IN  IF e1.err # "none" THEN e1.err
                 ELSE IF e2.err # "none" THEN e2.err
                 ELSE IF type = "cross" /\ e1.val = e2.val /\ p1[2] = p2[2]
                      THEN "skip"
                 ELSE IF type = "auto" /\ e1.val # e2.val /\ p1[2] # p2[2]
                      THEN "skip"
                 ELSE "emit"

MapIterable(o, coadd) == IF coadd THEN o.map_sets_list ELSE o.maps_list

\* what the loop body does at the k-th index pair of the two nested loops
\* (row-major: k-1 = (i-1)*n + (j-1))
PairOutcome(o, type, coadd, k) ==
    LET it == MapIterable(o, coadd)
        i == ((k - 1) \div Len(it)) + 1
        j == ((k - 1) % Len(it)) + 1
    IN  IF coadd THEN CoaddOutcome(type, i, j)
        ELSE SplitOutcome(o, type, it[i], it[j])

\* the call: the first exception raised in loop order or, without one,
\* ps_name_list: the pairs appended, in loop order
GetPsNamesListOf(o, type, coadd) ==
    LET it == MapIterable(o, coadd)
        n == Len(it)
        raising == {k \in 1..(n * n) :
                       PairOutcome(o, type, coadd, k) \notin {"emit", "skip"}}
        first == CHOOSE k \in raising : \A l \in raising : k <= l
        kept == SelectSeq([k \in 1..(n * n) |-> k],
                          LAMBDA k : PairOutcome(o, type, coadd, k) = "emit")
    IN  IF raising # {}
        THEN [err |-> PairOutcome(o, type, coadd, first), val |-> <<>>]
        ELSE [err |-> "none",
              val |-> [m \in 1..Len(kept) |->
                          <<it[((kept[m] - 1) \div n) + 1],
                            it[((kept[m] - 1) % n) + 1]>>]]

(***************************************************************************)
(* BBmeta.get_map_filename                                                 *)
(***************************************************************************)
\* getattr(self, label) for a directory attribute
DirAttr(o, label) ==
    IF label \in DOMAIN o.dir_attrs
    THEN [err |-> "none", val |-> o.dir_attrs[label]]
    ELSE [err |-> "AttributeError", val |-> <<>>]

\* the subdirectory of a simulation named without zero padding
SimDirNameUnpadded(id_sim) == Join(Dec(id_sim))

\* the subdirectory of a simulation: f"{id_sim:04d}"
SimDirName(id_sim) == Fmt04d(id_sim)

\* f"{map_set_root}_split_{id_split}.fits"
MapFileName(map_set_root, id_split) ==
    map_set_root \o "_split_" \o Join(Dec(id_split)) \o ".fits"

\* the call: the exception raised, the path returned and the filesystem
\* it leaves
GetMapFilenameOf(o, dirs, map_set, id_split, id_sim) ==
    LET root == FromMapSet(o.getters, o.map_sets, "file_root", map_set)
        sims == DirAttr(o, "sims_directory")
        maps == DirAttr(o, "map_directory")
    IN  IF root.err # "none"
        THEN [err |-> root.err, val |-> <<>>, fs |-> dirs]
        ELSE IF id_sim # None
        THEN IF sims.err # "none"
             THEN [err |-> sims.err, val |-> <<>>, fs |-> dirs]
             ELSE LET path_to_maps == PathJoin(sims.val, SimDirName(id_sim))
                  IN  [err |-> "none",
                       val |-> PathJoin(path_to_maps,
                                        MapFileName(root.val, id_split)),
                       fs |-> MakeDirs(dirs, path_to_maps)]
        ELSE IF maps.err # "none"
             THEN [err |-> maps.err, val |-> <<>>, fs |-> dirs]
             ELSE [err |-> "none",
                   val |-> PathJoin(maps.val, MapFileName(root.val, id_split)),
                   fs |-> dirs]

(***************************************************************************)
(* The calls on BBmeta as actions.                                         *)
(***************************************************************************)
NoCall ==
    [op |-> "start", type |-> "", coadd |-> FALSE,
     map_set |-> <<>>, id_split |-> 0, id_sim |-> None,
     cl_type |-> "", l |-> <<>>, cl_dict |-> <<>>,
     form |-> "", signal |-> "None", e_or_b |-> "None"]

\* BBmeta(fname_config): the directories are made first, then the checks
\* run and the lists are built
Construct ==
    /\ call.op = "start"
    /\ fs' = SetDirectoryAttributes(fs, config)
    /\ err' = BBmetaInit(config).err
    /\ meta' = BBmetaInit(config).obj
    /\ ret' = <<>>
    /\ call' = [NoCall EXCEPT !.op = "construct"]
    /\ UNCHANGED <<config, pcl, npz>>

GetPsNamesList(type, coadd) ==
    /\ meta.built
    /\ LET r == GetPsNamesListOf(meta, type, coadd)
       IN  /\ err' = r.err
           /\ ret' = r.val
    /\ call' = [NoCall EXCEPT !.op = "get_ps_names_list",
                              !.type = type, !.coadd = coadd]
    /\ UNCHANGED <<config, fs, meta, pcl, npz>>

GetMapFilename(map_set, id_split, id_sim) ==
    /\ meta.built
    /\ LET r == GetMapFilenameOf(meta, fs, map_set, id_split, id_sim)
       IN  /\ err' = r.err
           /\ ret' = r.val
           /\ fs' = r.fs
    /\ call' = [NoCall EXCEPT !.op = "get_map_filename", !.map_set = map_set,
                              !.id_split = id_split, !.id_sim = id_sim]
    /\ UNCHANGED <<config, meta, pcl, npz>>

NoWinv == [given |-> FALSE, shape |-> <<>>]

\* no archive has been written yet
NoFiles == [p \in {} |-> <<>>]

NoArchive == [present |-> FALSE, tracers |-> <<>>, nbands |-> 0, records |-> <<>>]

IdlePcl(archive) ==
    [pc |-> "idle", n |-> 0, nbpw |-> 0, winv |-> NoWinv, reads |-> <<>>,
     cls |-> <<>>, archive |-> archive]

InitWith(cfg, dirs) ==
    /\ config = cfg
    /\ fs = dirs
    /\ meta = NoObject
    /\ err = "none"
    /\ ret = <<>>
    /\ call = NoCall
    /\ pcl = IdlePcl(NoArchive)
    /\ npz = NoFiles

(***************************************************************************)
(* SpecEnum: any registry with all its keys, then the pair enumeration.    *)
(***************************************************************************)
InitEnum ==
    \E n \in 1..MaxMapSets : \E reg \in Registries(n) \cup {LoadRegistry(2)} :
        InitWith(MakeConfig(reg, MaxNside, (3 * MaxNside) - 1), {})

NextEnum ==
    \/ Construct
    \/ \E type \in Types, coadd \in BOOLEAN : GetPsNamesList(type, coadd)

SpecEnum == InitEnum /\ [][NextEnum]_vars

(***************************************************************************)
(* Spec: loading.  A fixed family of registries (A: 2 splits, B: 3, C: 1), *)
(* possibly with one key missing on one map set, under every nside and     *)
(* lmax of the bounds; then the calls that read the map-set attributes.    *)
(***************************************************************************)
LoadRegistries ==
    UNION {{LoadRegistry(n)}
           \cup {DropKey(LoadRegistry(n), i, key) : i \in 1..n, key \in MapSetKeys} :
           n \in 1..MaxMapSets}

Init ==
    \E reg \in LoadRegistries :
        \E nside \in 1..MaxNside, lmax \in 0..((3 * MaxNside) + 1) :
            InitWith(MakeConfig(reg, nside, lmax), {})

Next ==
    \/ Construct
    \/ \E type \in Types, coadd \in BOOLEAN : GetPsNamesList(type, coadd)
    \/ \E map_set \in Range(meta.map_sets_list) :
           GetMapFilename(map_set, 0, None)

Spec == Init /\ [][Next]_vars

(***************************************************************************)
(* SpecPath: path resolution over any initial filesystem.                  *)
(***************************************************************************)
PathPool ==
    {<<"data">>, <<"data", "maps">>, <<"data", "pre">>, <<"data", "sims">>,
     <<"data", "sims", "0007">>, <<"out">>, <<"out", "cells">>}

\* a filesystem holds the parents of its directories
Filesystems ==
    {d \in SUBSET PathPool : \A p \in d : Prefixes(p) \subseteq d}

InitPath ==
    \E dirs \in Filesystems :
        InitWith(MakeConfig(LoadRegistry(2), MaxNside, (3 * MaxNside) - 1), dirs)

NextPath ==
    \/ Construct
    \/ \E map_set \in Range(meta.map_sets_list) :
           \E id_split \in 0..MaxSplits, id_sim \in SimIds \cup {None} :
               GetMapFilename(map_set, id_split, id_sim)

SpecPath == InitPath /\ [][NextPath]_vars

(***************************************************************************)
(* get_pcls (utils.py), one step per stage of the call: the check of winv  *)
(* on entry, one read per input map, the loop that computes the spectra,   *)
(* the serialisation to fname_out.                                         *)
(***************************************************************************)
\* the shapes of the operators handed to get_pcls for nbpw bands
WinvShapes(nbpw) ==
    {<<4, nbpw, 4, nbpw>>, <<4, nbpw - 1, 4, nbpw - 1>>,
     <<4, nbpw + 1, 4, nbpw + 1>>, <<4, nbpw, nbpw, 4>>,
     <<4 * nbpw, 4 * nbpw>>}

\* the number of elements of an array of this shape
RECURSIVE Size(_)
Size(shape) == IF shape = <<>> THEN 1 ELSE Head(shape) * Size(Tail(shape))

\* a check of winv that compares the number of elements, not the shape
WinvRejectedBySize(winv, nbpw) ==
    winv.given /\ Size(winv.shape) # (4 * nbpw) * (4 * nbpw)

\* `winv is not None` and `winv.shape != (4, nbpw, 4, nbpw)`
WinvRejected(winv, nbpw) ==
    winv.given /\ winv.shape # <<4, nbpw, 4, nbpw>>

\* winv.reshape([4*nbpw, 4*nbpw]) raises when the sizes differ
ReshapeFails(winv, nbpw) ==
    winv.given /\ Size(winv.shape) # (4 * nbpw) * (4 * nbpw)

\* PipelineManager.cl_pair_iter(nmaps): the triples (icl, i, j), j >= i,
\* from row i on, icl being the running index
RECURSIVE ClPairIterFrom(_, _, _)
ClPairIterFrom(nmaps, i, icl) ==
    IF i >= nmaps THEN <<>>
    ELSE [k \in 1..(nmaps - i) |-> <<icl + (k - 1), i, i + (k - 1)>>]
         \o ClPairIterFrom(nmaps, i + 1, icl + (nmaps - i))

ClPairIter(nmaps) == ClPairIterFrom(nmaps, 0, 0)

\* the loop "Compute pseudo-C_ell": cls, one entry per triple, in order
ComputeCls(fields, deconv) ==
    LET it == ClPairIter(Len(fields))
    IN  [k \in 1..Len(it) |->
            [f1 |-> fields[it[k][2] + 1], f2 |-> fields[it[k][3] + 1],
             deconv |-> deconv]]

\* the add_ell_cl calls of one triple with cl_be stored for i = j too
PairRecordsAlwaysBe(t, cls) ==
    LET icl == t[1]
        i == t[2]
        j == t[3]
        rec(dtype, comp) ==
            [dtype |-> dtype, t1 |-> i, t2 |-> j,
             cl |-> cls[icl + 1], comp |-> comp]
    IN  <<rec("cl_ee", 0), rec("cl_eb", 1), rec("cl_be", 2), rec("cl_bb", 3)>>

\* the add_ell_cl calls of one triple
PairRecords(t, cls) ==
    LET icl == t[1]
        i == t[2]
        j == t[3]
        rec(dtype, comp) ==
            [dtype |-> dtype, t1 |-> i, t2 |-> j,
             cl |-> cls[icl + 1], comp |-> comp]
    IN  <<rec("cl_ee", 0), rec("cl_eb", 1)>>
        \o (IF i # j THEN <<rec("cl_be", 2)>> ELSE <<>>)
        \o <<rec("cl_bb", 3)>>

RECURSIVE SaccRecords(_, _, _)
SaccRecords(it, k, cls) ==
    IF k > Len(it) THEN <<>>
    ELSE PairRecords(it[k], cls) \o SaccRecords(it, k + 1, cls)

\* the archive written by s.save_fits(fname_out, overwrite=True)
SaccArchive(n, nbpw, cls) ==
    [present |-> TRUE, tracers |-> [k \in 1..n |-> k - 1], nbands |-> nbpw,
     records |-> SaccRecords(ClPairIter(n), 1, cls)]

\* entry: lines 21-26
PclsCall(n, nbpw, winv) ==
    /\ pcl.pc \in {"idle", "done", "raised"}
    /\ pcl' = [pc |-> IF WinvRejected(winv, nbpw) \/ ReshapeFails(winv, nbpw)
                      THEN "raised" ELSE "read",
               n |-> n, nbpw |-> nbpw, winv |-> winv, reads |-> <<>>,
               cls |-> <<>>, archive |-> pcl.archive]
    /\ err' = IF WinvRejected(winv, nbpw) \/ ReshapeFails(winv, nbpw)
              THEN "ValueError" ELSE "none"
    /\ call' = [NoCall EXCEPT !.op = "get_pcls"]
    /\ UNCHANGED <<config, fs, meta, ret, npz>>

\* one turn of the loop "Read maps": lines 30-33
PclsReadMap ==
    /\ pcl.pc = "read"
    /\ Len(pcl.reads) < pcl.n
    /\ pcl' = [pcl EXCEPT !.reads = Append(@, Len(@))]
    /\ UNCHANGED <<config, fs, meta, err, ret, call, npz>>

\* hp.read_map fails on an input file: the call is over
PclsReadFails ==
    /\ pcl.pc = "read"
    /\ Len(pcl.reads) < pcl.n
    /\ pcl' = [pcl EXCEPT !.pc = "raised"]
    /\ err' = "IOError"
    /\ UNCHANGED <<config, fs, meta, ret, call, npz>>

\* lines 36-44
PclsCompute ==
    /\ pcl.pc = "read"
    /\ Len(pcl.reads) = pcl.n
    /\ pcl' = [pcl EXCEPT !.pc = "save",
                          !.cls = ComputeCls(pcl.reads, pcl.winv.given)]
    /\ UNCHANGED <<config, fs, meta, err, ret, call, npz>>

\* lines 46-57
PclsSave ==
    /\ pcl.pc = "save"
    /\ pcl' = [pcl EXCEPT !.pc = "done",
                          !.archive = SaccArchive(pcl.n, pcl.nbpw, pcl.cls)]
    /\ UNCHANGED <<config, fs, meta, err, ret, call, npz>>

InitPcls ==
    InitWith(MakeConfig(LoadRegistry(1), MaxNside, (3 * MaxNside) - 1), {})

NextPcls ==
    \/ \E n \in 0..MaxMaps, nbpw \in 1..MaxBands :
           \E winv \in {NoWinv} \cup {[given |-> TRUE, shape |-> sh] :
                                         sh \in WinvShapes(nbpw)} :
               PclsCall(n, nbpw, winv)
    \/ PclsReadMap
    \/ PclsReadFails
    \/ PclsCompute
    \/ PclsSave

SpecPcls == InitPcls /\ [][NextPcls]_vars

(***************************************************************************)
(* The fiducial spectra: save_fiducial_cl and load_fiducial_cl.            *)
(***************************************************************************)
MaxEll == 2

\* the kinds whose file attribute __init__ sets
ClKinds == {"cosmo", "tf_est", "tf_val"}
\* "other" stands for any string that is not one of the three kinds
ClTypes == ClKinds \cup {"other"}

\* the multipole arrays 2..n+1
Ells == {[k \in 1..n |-> k + 1] : n \in 1..MaxEll}

\* an array of n values starting at v
Ramp(n, v) == [k \in 1..n |-> v + (k - 1)]

\* the dictionaries handed over with a multipole array of length n; the
\* last one has a component named like the multipole keyword
ClDicts(n) ==
    {[TT |-> Ramp(n, 10)],
     [TT |-> Ramp(n, 20), EE |-> Ramp(n, 30)],
     [TT |-> Ramp(n, 30), EE |-> Ramp(n, 20), BB |-> Ramp(n, 0)],
     [l |-> Ramp(n, 40)]}

\* one archive name for the three kinds
ClsFileShared(o, cl_type) ==
    IF cl_type \notin ClKinds THEN [err |-> "AttributeError", val |-> <<>>]
    ELSE LET pre == DirAttr(o, "pre_process_directory")
         IN  [err |-> "none", val |-> PathJoin(pre.val, "cls.npz")]

\* getattr(self, f"{cl_type}_cls_file"): the attributes set at the end of
\* __init__ are f"{self.pre_process_directory}/{kind}_cls.npz"
ClsFile(o, cl_type) ==
    IF cl_type \notin ClKinds THEN [err |-> "AttributeError", val |-> <<>>]
    ELSE LET pre == DirAttr(o, "pre_process_directory")
         IN  [err |-> "none",
              val |-> PathJoin(pre.val, cl_type \o "_cls.npz")]

\* the directory a file is in
DirName(path) == SubSeq(path, 1, Len(path) - 1)

\* np.savez(fname, l=l, **cl_dict): the keyword l and the keywords of
\* cl_dict become the keys of one archive, which replaces the file
Savez(files, dirs, fname, l, cl_dict) ==
    IF "l" \in DOMAIN cl_dict THEN [err |-> "TypeError", files |-> files]
    ELSE IF DirName(fname) \notin dirs
    THEN [err |-> "FileNotFoundError", files |-> files]
    ELSE LET archive == [k \in {"l"} \cup DOMAIN cl_dict |->
                            IF k = "l" THEN l ELSE cl_dict[k]]
         IN  [err |-> "none",
              files |-> [p \in DOMAIN files \cup {fname} |->
                            IF p = fname THEN archive ELSE files[p]]]

\* np.load(fname)
NpLoad(files, fname) ==
    IF fname \notin DOMAIN files
    THEN [err |-> "FileNotFoundError", val |-> <<>>]
    ELSE [err |-> "none", val |-> files[fname]]

SaveFiducialCl(l, cl_dict, cl_type) ==
    /\ meta.built
    /\ LET fname == ClsFile(meta, cl_type)
           r == Savez(npz, fs, fname.val, l, cl_dict)
       IN  IF fname.err # "none"
           THEN err' = fname.err /\ npz' = npz
           ELSE err' = r.err /\ npz' = r.files
    /\ ret' = <<>>
    /\ call' = [NoCall EXCEPT !.op = "save_fiducial_cl", !.cl_type = cl_type,
                              !.l = l, !.cl_dict = cl_dict]
    /\ UNCHANGED <<config, fs, meta, pcl>>

LoadFiducialCl(cl_type) ==
    /\ meta.built
    /\ LET fname == ClsFile(meta, cl_type)
           r == NpLoad(npz, fname.val)
       IN  IF fname.err # "none"
           THEN err' = fname.err /\ ret' = <<>>
           ELSE err' = r.err /\ ret' = r.val
    /\ call' = [NoCall EXCEPT !.op = "load_fiducial_cl", !.cl_type = cl_type]
    /\ UNCHANGED <<config, fs, meta, pcl, npz>>

InitCls ==
    InitWith(MakeConfig(LoadRegistry(1), MaxNside, (3 * MaxNside) - 1), {})

NextCls ==
    \/ Construct
    \/ \E cl_type \in ClTypes : \E l \in Ells : \E cl_dict \in ClDicts(Len(l)) :
           SaveFiducialCl(l, cl_dict, cl_type)
    \/ \E cl_type \in ClTypes : LoadFiducialCl(cl_type)

SpecCls == InitCls /\ [][NextCls]_vars

(***************************************************************************)
(* The transfer-function maps: get_map_filename_transfer and               *)
(* read_map_transfer.                                                      *)
(***************************************************************************)
\* signal=None, e_or_b=None
NoneStr == "None"
Signals == {NoneStr, "CMB", "dust"}
PureTypes == {NoneStr, "E", "B"}

\* how the caller passes the arguments: all three by position, as
\* read_map_transfer does, or id_sim by position and each selector that
\* is given by keyword
CallForms == {"positional", "keyword"}

\* the parameters of `def get_map_filename_transfer(id_sim, signal=None,
\* e_or_b=None)`: the definition has no self
TransferParams == <<"id_sim", "signal", "e_or_b">>

\* the call through the instance: the instance is the first of the npos
\* positional arguments; too many of them, or a keyword naming a
\* parameter that a positional argument fills, is a TypeError
BindTransfer(npos, kws) ==
    IF npos > Len(TransferParams) THEN "TypeError"
    ELSE IF \E k \in 1..npos : TransferParams[k] \in kws THEN "TypeError"
    ELSE "none"

\* the names the body of get_map_filename_transfer can read: its
\* parameters and the module's imports; path_to_maps and self are not
\* among them
TransferNames == {"id_sim", "signal", "e_or_b", "os"}

\* `not x` for a selector
Falsy(x) == x = NoneStr

\* the body on bound parameters: the exception raised and the path
TransferBody(id_sim, signal, e_or_b) ==
    IF "path_to_maps" \notin TransferNames
    THEN [err |-> "NameError", val |-> <<>>]
    ELSE IF (Falsy(signal) /\ Falsy(e_or_b))
            \/ (~Falsy(signal) /\ ~Falsy(e_or_b))
    THEN [err |-> "ValueError", val |-> <<>>]
    ELSE IF "self" \notin TransferNames
    THEN [err |-> "NameError", val |-> <<>>]
    ELSE IF signal # NoneStr
    THEN [err |-> "none",
          val |-> <<"transsims", SimDirName(id_sim),
                    "pure" \o e_or_b \o ".fits">>]
    ELSE [err |-> "none",
          val |-> <<"transval", SimDirName(id_sim), signal \o ".fits">>]

\* self.get_map_filename_transfer(...) with the arguments passed in the
\* given form
GetMapFilenameTransferOf(form, id_sim, signal, e_or_b) ==
    LET npos == IF form = "positional" THEN 4 ELSE 2
        kws == IF form = "positional" THEN {}
               ELSE (IF signal # NoneStr THEN {"signal"} ELSE {})
                    \cup (IF e_or_b # NoneStr THEN {"e_or_b"} ELSE {})
    IN  IF BindTransfer(npos, kws) # "none"
        THEN [err |-> BindTransfer(npos, kws), val |-> <<>>]
        ELSE \* form = "keyword" without signal=: the instance is bound to
             \* id_sim and the simulation index to signal (falsy when 0)
             TransferBody(0, IF id_sim = 0 THEN NoneStr ELSE "sim", e_or_b)

\* read_map_transfer: its own check of the selectors, then the resolver
\* called with three positional arguments, then the read
ReadMapTransferOf(id_sim, signal, e_or_b) ==
    IF (Falsy(signal) /\ Falsy(e_or_b)) \/ (~Falsy(signal) /\ ~Falsy(e_or_b))
    THEN [err |-> "ValueError", val |-> <<>>]
    ELSE LET fname == GetMapFilenameTransferOf("positional", id_sim,
                                               signal, e_or_b)
         IN  IF fname.err # "none" THEN fname
             ELSE [err |-> "AttributeError", val |-> <<>>]

GetMapFilenameTransfer(form, id_sim, signal, e_or_b) ==
    /\ meta.built
    /\ LET r == GetMapFilenameTransferOf(form, id_sim, signal, e_or_b)
       IN  /\ err' = r.err
           /\ ret' = r.val
    /\ call' = [NoCall EXCEPT !.op = "get_map_filename_transfer",
                              !.form = form, !.id_sim = id_sim,
                              !.signal = signal, !.e_or_b = e_or_b]
    /\ UNCHANGED <<config, fs, meta, pcl, npz>>

ReadMapTransfer(id_sim, signal, e_or_b) ==
    /\ meta.built
    /\ LET r == ReadMapTransferOf(id_sim, signal, e_or_b)
       IN  /\ err' = r.err
           /\ ret' = r.val
    /\ call' = [NoCall EXCEPT !.op = "read_map_transfer", !.id_sim = id_sim,
                              !.signal = signal, !.e_or_b = e_or_b]
    /\ UNCHANGED <<config, fs, meta, pcl, npz>>

InitTransfer ==
    InitWith(MakeConfig(LoadRegistry(1), MaxNside, (3 * MaxNside) - 1), {})

NextTransfer ==
    \/ Construct
    \/ \E form \in CallForms, id_sim \in SimIds :
           \E signal \in Signals, e_or_b \in PureTypes :
               GetMapFilenameTransfer(form, id_sim, signal, e_or_b)
    \/ \E id_sim \in SimIds, signal \in Signals, e_or_b \in PureTypes :
           ReadMapTransfer(id_sim, signal, e_or_b)

SpecTransfer == InitTransfer /\ [][NextTransfer]_vars

(***************************************************************************)
(* SpecSplits: one map set with up to MaxManySplits splits, so that split  *)
(* indices of one and of two digits meet in the pair enumeration.          *)
(***************************************************************************)
MaxManySplits == 11

\* the registry A: n splits
ManySplitsRegistry(n, tag) ==
    <<[id |-> <<"A">>,
       attrs |-> [n_splits |-> n, exp_tag |-> tag,
                  file_root |-> FileRoot(<<"A">>)]]>>

InitSplits ==
    \E n \in 1..MaxManySplits, tag \in ExpTags :
        InitWith(MakeConfig(ManySplitsRegistry(n, tag), MaxNside,
                            (3 * MaxNside) - 1), {})

NextSplits ==
    \/ Construct
    \/ \E type \in Types, coadd \in BOOLEAN : GetPsNamesList(type, coadd)

SpecSplits == InitSplits /\ [][NextSplits]_vars

(***************************************************************************)
(* Helpers of the properties.                                              *)
(***************************************************************************)
NoDuplicates(seq) == \A k, l \in 1..Len(seq) : seq[k] = seq[l] => k = l

\* the n_splits of the first k map sets of the configuration, added up
RECURSIVE SumSplits(_, _)
SumSplits(reg, k) ==
    IF k = 0 THEN 0 ELSE SumSplits(reg, k - 1) + reg[k].attrs.n_splits

Returned(op) == call.op = op /\ err = "none"

PsCall(type, coadd) ==
    Returned("get_ps_names_list") /\ call.type = type /\ call.coadd = coadd

(***************************************************************************)
(* C1: for individual maps (coadd=False) and type "all" the list returned  *)
(* holds every unordered pair of maps exactly once, always as              *)
(* (maps_list[i], maps_list[j]) with i <= j, with no duplicate and no      *)
(* mirrored pair: N(N+1)/2 pairs for N maps.                               *)
(***************************************************************************)
C1_AllMapsUpperTriangle ==
    PsCall("all", FALSE) =>
        LET L == meta.maps_list
            N == Len(L)
        IN  /\ Len(ret) = (N * (N + 1)) \div 2
            /\ NoDuplicates(ret)
            /\ \A k \in 1..Len(ret) :
                   \E i, j \in 1..N : i <= j /\ ret[k] = <<L[i], L[j]>>
            /\ \A i, j \in 1..N : i <= j => <<L[i], L[j]>> \in Range(ret)
            /\ \A p \in Range(ret) : p[1] # p[2] => <<p[2], p[1]>> \notin Range(ret)

(***************************************************************************)
(* C2: for the same registry and the same coadd, the list returned for     *)
(* type "auto" and the list returned for type "cross" share no pair.       *)
(***************************************************************************)
C2_AutoCrossDisjoint ==
    \A coadd \in BOOLEAN :
        PsCall("auto", coadd) =>
            LET cross == GetPsNamesListOf(meta, "cross", coadd)
            IN  cross.err = "none" => Range(ret) \cap Range(cross.val) = {}

C5_UnknownTypeRaises ==
    (call.op = "get_ps_names_list" /\ call.type \notin {"all", "auto", "cross"})
        => err = "ValueError"

(***************************************************************************)
(* C8: after construction map_sets_list is the map-set identifiers in      *)
(* configuration order, and maps_list holds exactly one identifier         *)
(* "{map_set}__{split}" per map set and split in [0, n_splits): its length *)
(* is the sum of the split counts, its elements are distinct, map sets     *)
(* come in configuration order and splits ascending within each.           *)
(***************************************************************************)
C8_ListsAfterConstruction ==
    meta.built =>
        LET reg == config.map_sets
        IN  /\ Len(meta.map_sets_list) = Len(reg)
            /\ \A i \in 1..Len(reg) : meta.map_sets_list[i] = reg[i].id
            /\ Len(meta.maps_list) = SumSplits(reg, Len(reg))
            /\ NoDuplicates(meta.maps_list)
            /\ \A i \in 1..Len(reg) : \A s \in 0..(reg[i].attrs.n_splits - 1) :
                   meta.maps_list[SumSplits(reg, i - 1) + s + 1]
                       = reg[i].id \o <<"_", "_">> \o Dec(s)

C8_Witness ==
    /\ meta.built
    /\ Len(config.map_sets) = 2
    /\ config.map_sets[1].id = <<"A">>
    /\ config.map_sets[1].attrs.n_splits = 2
    /\ config.map_sets[2].id = <<"B">>
    /\ config.map_sets[2].attrs.n_splits = 3
    /\ meta.map_sets_list = <<<<"A">>, <<"B">>>>
    /\ Len(meta.maps_list) = 5
    /\ meta.maps_list[3] = <<"B", "_", "_", "0">>

(***************************************************************************)
(* C4: if a map set lacks an attribute key that the first map set has,     *)
(* constructing BBmeta fails; the failure is never left to a later call    *)
(* that reads the attribute.                                               *)
(***************************************************************************)
LacksKeyOfFirst(cfg) ==
    \E i \in 2..Len(cfg.map_sets) : \E key \in DOMAIN cfg.map_sets[1].attrs :
        key \notin DOMAIN cfg.map_sets[i].attrs

C4_MissingKeyFailsAtLoad ==
    (LacksKeyOfFirst(config) /\ call.op # "start") =>
        /\ ~meta.built
        /\ call.op = "construct"
        /\ err # "none"

(***************************************************************************)
(* C7: construction fails with the configuration error (ValueError)        *)
(* exactly when lmax > 3*nside - 1: lmax = 3*nside raises, lmax =          *)
(* 3*nside - 1 and anything smaller does not.                              *)
(***************************************************************************)
C7_LmaxCheck ==
    call.op = "construct" =>
        /\ (config.lmax >= 3 * config.nside => err = "ValueError" /\ ~meta.built)
        /\ (config.lmax < 3 * config.nside => err # "ValueError")

C7_Witness ==
    /\ call.op = "construct"
    /\ config.nside = 2
    /\ config.lmax = 6
    /\ err = "ValueError"

(***************************************************************************)
(* C9: get_map_filename with an id_sim returns                             *)
(* {sims_directory}/{id_sim:04d}/{file_root}_split_{id_split}.fits and     *)
(* leaves that subdirectory existing; a repeated call with the same        *)
(* arguments returns the same path and changes no directory; with          *)
(* id_sim=None it returns {map_directory}/{file_root}_split_{id_split}.fits*)
(* and creates no directory.                                               *)
(***************************************************************************)
PaddedSimId(id_sim) ==
    CASE id_sim = 0 -> "0000"
      [] id_sim = 7 -> "0007"
      [] id_sim = 123 -> "0123"
      [] id_sim = 12345 -> "12345"

ExpectedFile(c) ==
    (IF c.map_set = <<"A">> THEN "rootA" ELSE "rootB")
        \o "_split_" \o DigitChars[c.id_split + 1] \o ".fits"

C9_MapFilenameStep ==
    (call'.op = "get_map_filename" /\ err' = "none") =>
        /\ call'.id_sim # None =>
               /\ ret' = <<"data", "sims", PaddedSimId(call'.id_sim),
                           ExpectedFile(call')>>
               /\ <<"data", "sims", PaddedSimId(call'.id_sim)>> \in fs'
               /\ fs \subseteq fs'
               /\ fs' \ fs \subseteq {<<"data", "sims", PaddedSimId(call'.id_sim)>>}
        /\ call'.id_sim = None =>
               /\ ret' = <<"data", "maps", ExpectedFile(call')>>
               /\ fs' = fs
        /\ (call = call' /\ err = "none") => (ret' = ret /\ fs' = fs)

\* C9: every step that returns from get_map_filename yields the path and
\* the directory effect stated above
C9_MapFilename == [][C9_MapFilenameStep]_vars

C9_Witness ==
    /\ Returned("get_map_filename")
    /\ call.id_sim = 7
    /\ call.id_split = 1
    /\ ret = <<"data", "sims", "0007", "rootB_split_1.fits">>
    /\ <<"data", "sims", "0007">> \in fs
    /\ <<"data", "sims", "0123">> \in fs

(***************************************************************************)
(* C10, as stated: construction leaves the set of existing directories     *)
(* unchanged, and a directory comes into existence only through a later    *)
(* resolver call.                                                          *)
(***************************************************************************)
C10_NoDirectoryAtConstruction ==
    [][/\ call'.op = "construct" => fs' = fs
       /\ fs' # fs => call'.op = "get_map_filename"]_vars

(***************************************************************************)
(* C10, amended: construction creates every configured directory           *)
(* {root}/{path} of data_dirs and output_dirs, with its missing parents,   *)
(* and nothing else; after it a directory comes into existence only        *)
(* through get_map_filename with an id_sim, which creates                  *)
(* {sims_directory}/{id_sim:04d}.                                          *)
(***************************************************************************)
C10_DirectoriesStep ==
    /\ call'.op = "construct" =>
           fs' = fs \cup {<<"data">>, <<"data", "maps">>, <<"data", "sims">>,
                          <<"data", "pre">>, <<"out">>, <<"out", "cells">>}
    /\ call'.op = "get_map_filename" =>
           /\ fs \subseteq fs'
           /\ \A d \in fs' \ fs :
                  /\ call'.id_sim # None
                  /\ d = <<"data", "sims", PaddedSimId(call'.id_sim)>>
    /\ call'.op \notin {"construct", "get_map_filename"} => fs' = fs

\* C10 (amended): every step changes the directories as stated above
C10_Directories == [][C10_DirectoriesStep]_vars

C10_Witness ==
    /\ call.op = "construct"
    /\ {<<"data", "maps">>, <<"data", "sims">>, <<"out", "cells">>} \subseteq fs
    /\ <<"data", "sims", "0007">> \notin fs

(***************************************************************************)
(* C6: a call of get_pcls with a winv whose shape is not                   *)
(* (4, nbands, 4, nbands) raises the shape error on entry: no map is read  *)
(* and the archive at fname_out stays what it was before the call.         *)
(***************************************************************************)
C6_ShapeErrorStep ==
    (pcl'.winv.given /\ pcl'.winv.shape # <<4, pcl'.nbpw, 4, pcl'.nbpw>>) =>
        /\ pcl'.pc = "raised"
        /\ err' = "ValueError"
        /\ pcl'.reads = <<>>
        /\ pcl'.archive = pcl.archive

\* C6: every step of a call with a winv of the wrong shape is the raise on
\* entry, with nothing read and the archive untouched
C6_ShapeError == [][C6_ShapeErrorStep]_vars

C6_Witness ==
    /\ pcl.pc = "raised"
    /\ err = "ValueError"
    /\ pcl.n = 2
    /\ pcl.nbpw = 2
    /\ pcl.winv.given
    /\ pcl.winv.shape = <<4, 1, 4, 1>>
    /\ pcl.reads = <<>>
    /\ pcl.archive.present
    /\ pcl.archive.nbands = 1

(***************************************************************************)
(* C11: for every kind in {cosmo, tf_est, tf_val}, save_fiducial_cl(l,     *)
(* cl_dict, kind) followed by load_fiducial_cl(kind) returns an archive    *)
(* whose l and whose every named component are what was saved, also when   *)
(* records of the other two kinds are saved in between: each kind has its  *)
(* own archive {pre_process_directory}/{kind}_cls.npz.  In steps: a save   *)
(* that returns leaves the record in the archive of its kind and leaves    *)
(* the archives of the other two kinds as they were, and a load that       *)
(* returns hands back the archive of its kind and writes nothing.          *)
(***************************************************************************)
KindArchive(kind) ==
    CASE kind = "cosmo" -> <<"data", "pre", "cosmo_cls.npz">>
      [] kind = "tf_est" -> <<"data", "pre", "tf_est_cls.npz">>
      [] kind = "tf_val" -> <<"data", "pre", "tf_val_cls.npz">>

\* the archive holds the record (l, cl_dict)
HoldsRecord(archive, l, cl_dict) ==
    /\ "l" \in DOMAIN archive
    /\ archive["l"] = l
    /\ \A name \in DOMAIN cl_dict :
           name \in DOMAIN archive /\ archive[name] = cl_dict[name]

SameFile(files1, files2, path) ==
    /\ path \in DOMAIN files1 <=> path \in DOMAIN files2
    /\ path \in DOMAIN files1 => files1[path] = files2[path]

C11_FiducialRoundTripStep ==
    /\ (call'.op = "save_fiducial_cl" /\ err' = "none") =>
           /\ call'.cl_type \in ClKinds
           /\ KindArchive(call'.cl_type) \in DOMAIN npz'
           /\ HoldsRecord(npz'[KindArchive(call'.cl_type)],
                          call'.l, call'.cl_dict)
           /\ \A kind \in ClKinds \ {call'.cl_type} :
                  SameFile(npz, npz', KindArchive(kind))
    /\ (call'.op = "load_fiducial_cl" /\ err' = "none") =>
           /\ call'.cl_type \in ClKinds
           /\ KindArchive(call'.cl_type) \in DOMAIN npz
           /\ ret' = npz[KindArchive(call'.cl_type)]
           /\ npz' = npz
    /\ (call'.op = "save_fiducial_cl" /\ call'.cl_type \in ClKinds
        /\ "l" \notin DOMAIN call'.cl_dict) => err' = "none"

C12_TransferResolution ==
    call.op \in {"get_map_filename_transfer", "read_map_transfer"} =>
        LET both == call.signal # NoneStr /\ call.e_or_b # NoneStr
            neither == call.signal = NoneStr /\ call.e_or_b = NoneStr
        IN  /\ err = "ValueError" <=> (both \/ neither)
            /\ ~(both \/ neither) => (err = "none" /\ ret # <<>>)

(***************************************************************************)
(* C13: a get_pcls call that succeeds over n input maps writes one tracer  *)
(* per entity name and, for every index pair (i, j) with 0 <= i <= j < n   *)
(* exactly once, the records cl_ee, cl_eb and cl_bb keyed by (names[i],    *)
(* names[j]), plus cl_be if and only if i # j: 3n + 4*n(n-1)/2 records in  *)
(* all.  Each record holds the matching component of the spectrum that     *)
(* was computed from the fields i and j.  Names and fields are both        *)
(* numbered by their position, from 0.                                     *)
(***************************************************************************)
\* the positions of the records of this type and pair
RecordsAt(records, dtype, i, j) ==
    {k \in 1..Len(records) :
        /\ records[k].dtype = dtype
        /\ records[k].t1 = i
        /\ records[k].t2 = j}

\* the row of a spectrum that a record type stands for: EE, EB, BE, BB
ComponentOf(dtype) ==
    CASE dtype = "cl_ee" -> 0
      [] dtype = "cl_eb" -> 1
      [] dtype = "cl_be" -> 2
      [] dtype = "cl_bb" -> 3

C13_PclsRecords ==
    pcl.pc = "done" =>
        LET n == pcl.n
            a == pcl.archive
        IN  /\ a.present
            /\ Len(a.tracers) = n
            /\ \A k \in 1..n : a.tracers[k] = k - 1
            /\ \A i, j \in 0..(n - 1) : \A dtype \in {"cl_ee", "cl_eb", "cl_bb"} :
                   Cardinality(RecordsAt(a.records, dtype, i, j))
                       = IF i <= j THEN 1 ELSE 0
            /\ \A i, j \in 0..(n - 1) :
                   Cardinality(RecordsAt(a.records, "cl_be", i, j))
                       = IF i < j THEN 1 ELSE 0
            /\ Len(a.records) = (3 * n) + (4 * ((n * (n - 1)) \div 2))
            /\ \A k \in 1..Len(a.records) :
                   /\ a.records[k].dtype \in {"cl_ee", "cl_eb", "cl_be", "cl_bb"}
                   /\ a.records[k].comp = ComponentOf(a.records[k].dtype)
                   /\ a.records[k].cl.f1 = a.records[k].t1
                   /\ a.records[k].cl.f2 = a.records[k].t2

\* three maps: 21 records, the spectrum of the fields 1 and 2 among them
C13_Witness ==
    /\ pcl.pc = "done"
    /\ pcl.n = 3
    /\ Len(pcl.archive.records) = 21
    /\ RecordsAt(pcl.archive.records, "cl_be", 1, 2) # {}
    /\ RecordsAt(pcl.archive.records, "cl_be", 1, 1) = {}

(***************************************************************************)
(* C14: for two maps of the same map set (coadd=False) the pair is dropped *)
(* exactly when the split index of the first is greater than that of the   *)
(* second as decimal strings, not as numbers.  With at least 11 splits     *)
(* (A__10, A__2) is emitted and (A__2, A__10) is not; of every two         *)
(* distinct splits of one map set exactly one ordering is emitted, under   *)
(* every type.  An identical pair passes this filter: it is emitted under  *)
(* every type but "cross", whose own filter drops it.                      *)
(***************************************************************************)
\* str(s) > str(t) for 0 <= s, t < 100, on the digits as numbers: the
\* leading digits decide; when they are equal a one-digit string is a
\* prefix of the other and smaller, and two two-digit strings are decided
\* by their last digits
Lead(s) == IF s < 10 THEN s ELSE s \div 10

DecimalStringGreater(s, t) ==
    IF Lead(s) # Lead(t) THEN Lead(s) > Lead(t)
    ELSE IF s < 10 THEN FALSE
    ELSE IF t < 10 THEN TRUE
    ELSE (s % 10) > (t % 10)

Emitted(map1, map2) == <<map1, map2>> \in Range(ret)

C14_SplitsComparedAsStrings ==
    (Returned("get_ps_names_list") /\ ~call.coadd) =>
        \A k \in 1..Len(config.map_sets) :
            LET map_set == config.map_sets[k].id
                n == config.map_sets[k].attrs.n_splits
            IN  /\ \A s, t \in 0..(n - 1) :
                       s # t =>
                           /\ Emitted(MapName(map_set, s), MapName(map_set, t))
                                  <=> ~DecimalStringGreater(s, t)
                           /\ Emitted(MapName(map_set, s), MapName(map_set, t))
                                  <=> ~Emitted(MapName(map_set, t),
                                               MapName(map_set, s))
                /\ \A s \in 0..(n - 1) :
                       Emitted(MapName(map_set, s), MapName(map_set, s))
                           <=> call.type # "cross"
                /\ (map_set = <<"A">> /\ n >= 11) =>
                       /\ Emitted(<<"A", "_", "_", "1", "0">>,
                                  <<"A", "_", "_", "2">>)
                       /\ ~Emitted(<<"A", "_", "_", "2">>,
                                   <<"A", "_", "_", "1", "0">>)

\* eleven splits, the default type: (A__10, A__2) is in the list, and so
\* is (A__9, A__9)
C14_Witness ==
    /\ PsCall("all", FALSE)
    /\ Len(config.map_sets) = 1
    /\ config.map_sets[1].attrs.n_splits = 11
    /\ Emitted(<<"A", "_", "_", "1", "0">>, <<"A", "_", "_", "2">>)
    /\ ~Emitted(<<"A", "_", "_", "2">>, <<"A", "_", "_", "1", "0">>)
    /\ Emitted(<<"A", "_", "_", "9">>, <<"A", "_", "_", "9">>)

(***************************************************************************)
(* C15: for every registry and either value of coadd, the set of pairs     *)
(* returned with type "all" is the union of the sets returned with type    *)
(* "auto" and with type "cross": both filters never drop the same pair of  *)
(* "all", and neither emits a pair that "all" does not.  Every identical   *)
(* pair (m, m) is in the "auto" result and never in the "cross" result.    *)
(***************************************************************************)
\* the set of pairs the object returns for this type
PairsOf(type, coadd) == Range(GetPsNamesListOf(meta, type, coadd).val)

C15_AllIsAutoOrCross ==
    \A coadd \in BOOLEAN :
        /\ PsCall("all", coadd) =>
               /\ GetPsNamesListOf(meta, "auto", coadd).err = "none"
               /\ GetPsNamesListOf(meta, "cross", coadd).err = "none"
               /\ Range(ret) = PairsOf("auto", coadd) \cup PairsOf("cross", coadd)
        /\ PsCall("auto", coadd) =>
               \A m \in Range(MapIterable(meta, coadd)) : <<m, m>> \in Range(ret)
        /\ PsCall("cross", coadd) =>
               \A m \in Range(MapIterable(meta, coadd)) : <<m, m>> \notin Range(ret)

\* A: 2 splits, B: 3 splits, other tags: "all" holds (A__0, A__0), which
\* only "auto" keeps, and (A__0, B__1), which only "cross" keeps
C15_Witness ==
    /\ PsCall("all", FALSE)
    /\ <<MapName(<<"A">>, 0), MapName(<<"A">>, 0)>> \in Range(ret)
    /\ <<MapName(<<"A">>, 0), MapName(<<"A">>, 0)>> \notin PairsOf("cross", FALSE)
    /\ <<MapName(<<"A">>, 0), MapName(<<"B">>, 1)>> \in Range(ret)
    /\ <<MapName(<<"A">>, 0), MapName(<<"B">>, 1)>> \notin PairsOf("auto", FALSE)

====
